---- MODULE Spec2Model ----
(***************************************************************************)
(* Model of the playback manager WsRtspVideo (a React function component)  *)
(* together with the collaborators it drives: the transport pipelines it   *)
(* constructs and closes, the deferred "ready" continuations it registers  *)
(* on them, and the video element (media surface) whose events and clock   *)
(* it observes.                                                            *)
(*                                                                         *)
(* One action is one task of the UI event loop: a prop change, a surface   *)
(* event, a pipeline-ready notification or an interval tick, followed by   *)
(* every render and effect pass it causes, until the component is stable.  *)
(* An effect reads the values of the render it belongs to (its closure);   *)
(* its state setters take effect at the next render.                       *)
(*                                                                         *)
(* The Player component (controls, waiting flag, what it hands down to     *)
(* PlaybackArea) is a second machine over its own variables, PlayerSpec;   *)
(* each of the two specifications leaves the other component as mounted.   *)
(***************************************************************************)
EXTENDS Integers, Sequences, FiniteSets, TLC

\* ------------------------------------------------------------------ bounds
MaxPipelines == 3
MaxClock == 1
MaxRefresh == 2
MaxTimers == 2
MaxMounts == 2

\* ------------------------------------------------------- program constants
FrozenThreshold == 3
\* the stream's frame size (the default resolution)
StreamWidth == 640
StreamHeight == 360

Null == 0
\* The targets (ws, rtsp) the host supplies: two complete ones, one without
\* ws and one without rtsp.
Targets ==
  {<<"ws1", "rtsp1">>, <<"ws2", "rtsp1">>, <<"", "rtsp1">>, <<"ws1", "">>}
Hostnames == {"cam1", "cam2"}
Resolutions == {"640x360", "1280x720"}
PipelineIds == 1..MaxPipelines
TimerIds == 1..MaxTimers

VARIABLES
  play, ws, rtsp,          \* props of WsRtspVideo
  canplay, playing,        \* useEventState(videoRef, 'canplay' / 'playing')
  pipeline, fetching,      \* useState: state tied to resources
  playTime, frozenSecs,    \* useState: frozen-feed detection
  cleanupPipe,             \* the pipeline captured by the ws/rtsp effect's cleanup
  pstatus,                 \* every pipeline: "none" | "live" | "closed"
  ready,                   \* pipelines whose ready promise has resolved
  pending,                 \* pipelines with a registered, unfired continuation
  regs,                    \* per pipeline: continuations registered so far
  currentTime,             \* videoEl.currentTime
  ops,                     \* the calls made by the last task, in order
  consecFrozen,            \* consecutive frozen ticks seen (reference counter)
  timers,                  \* the interval timers that are set and not cleared
  interval,                \* the timer captured by the interval effect's cleanup
  mounted,                 \* the component is mounted
  hostname, autoPlay,      \* props of Player
  playerPlay, refresh,     \* useState of Player: play, refresh
  host, waiting,           \* useState of Player: host, waiting
  videoProperties,         \* useState of Player: what onPlaying reported
  attributes,              \* MediaStreamPlayer: hostname, autoplay, resolution
  setStateCb,              \* MediaStreamPlayer._setState: the component it sets
  instance, mounts,        \* the mounted PlayerComponent, and how many there were
  effectPending,           \* PlayerComponent's subscription effect has yet to run
  componentState           \* useState of PlayerComponent

vars == <<play, ws, rtsp, canplay, playing, pipeline, fetching, playTime,
          frozenSecs, cleanupPipe, pstatus, ready, pending, regs,
          currentTime, ops, consecFrozen, timers, interval, mounted,
          hostname, autoPlay, playerPlay, refresh, host, waiting,
          videoProperties, attributes, setStateCb, instance, mounts,
          effectPending, componentState>>

\* The Player's props and state.
playerVars ==
  <<hostname, autoPlay, playerPlay, refresh, host, waiting, videoProperties>>
\* The custom element and the PlayerComponent it renders.
elementVars ==
  <<attributes, setStateCb, instance, mounts, effectPending, componentState>>
\* WsRtspVideo's props and state, and its collaborators, but for ops.
videoVars ==
  <<play, ws, rtsp, canplay, playing, pipeline, fetching, playTime,
    frozenSecs, cleanupPipe, pstatus, ready, pending, regs, currentTime,
    consecFrozen, timers, interval, mounted>>

\* One call made by a task: its name, the pipeline it is about (or Null) and,
\* for a construction, the URIs handed to the constructor.
Op(name, id) ==
  [op |-> name, id |-> id, ws |-> "", rtsp |-> "", st |-> "",
   width |-> 0, height |-> 0]
OpConstruct(id, w, r) == [Op("construct", id) EXCEPT !.ws = w, !.rtsp = r]
\* A call on a pipeline, with the state the pipeline is in when called.
OpOn(name, id, st) == [Op(name, id) EXCEPT !.st = st]
\* onPlaying({el, width, height})
OpOnPlaying(width, height) ==
  [Op("onPlaying", Null) EXCEPT !.width = width, !.height = height]

\* The component and its collaborators as one record (ok: no bound was hit).
Cur ==
  [play |-> play, ws |-> ws, rtsp |-> rtsp, canplay |-> canplay,
   playing |-> playing, pipeline |-> pipeline, fetching |-> fetching,
   playTime |-> playTime, frozenSecs |-> frozenSecs,
   cleanupPipe |-> cleanupPipe, pstatus |-> pstatus, ready |-> ready,
   pending |-> pending, regs |-> regs, timers |-> timers,
   interval |-> interval, mounted |-> mounted, ops |-> <<>>, ok |-> TRUE]

AddOp(w, o) == [w EXCEPT !.ops = Append(@, o)]

\* F applied to the value of e, e being evaluated once.
Let(e, F(_)) == CHOOSE x \in {F(v) : v \in {e}} : TRUE

\* videoEl.videoWidth / videoEl.videoHeight: the element has the stream's
\* frame size from the moment it reports 'canplay' until its src is cleared,
\* which are the moments the canplay flag is set and cleared; 0 otherwise.
VideoWidth(w) == IF w.canplay THEN StreamWidth ELSE 0
VideoHeight(w) == IF w.canplay THEN StreamHeight ELSE 0

\* pipeline.close(): safe to call more than once.
ClosePipeline(w, id) ==
  AddOp([w EXCEPT !.pstatus[id] = "closed"], OpOn("close", id, w.pstatus[id]))

\* The identity of the next pipeline object: pipelines are numbered in the
\* order of their construction.
NextId(w) == Cardinality({i \in PipelineIds : w.pstatus[i] # "none"}) + 1

\* new pipelines.Html5VideoPipeline({ws, rtsp, mediaElement})
NewPipeline(w, wsUri, rtspUri) ==
  LET id == NextId(w) IN
  IF id > MaxPipelines
    THEN [w EXCEPT !.ok = FALSE]
    ELSE AddOp([w EXCEPT !.pstatus[id] = "live"], OpConstruct(id, wsUri, rtspUri))

\* ------------------------------------------------------------ effects
\* The dependency arrays of the effects: an effect runs after a render whose
\* dependencies differ from those of the previous render (and at mount).
\* (Variant: the reconciliation effect also listing fetching.)
PlayingDepsWithFetching(r) == <<r.play, r.canplay, r.playing, r.fetching>>
PlayingDeps(r) == <<r.play, r.canplay, r.playing>>
\* (Variant: deps that differ from those of the render before the task, as
\* an object built anew would.)
SessionDepsPerRender(r) == <<r.ws, r.rtsp, r.ops = <<>> >>
SessionDeps(r) == <<r.ws, r.rtsp>>
RecoveryDeps(r) == <<r.frozenSecs>>
FetchDeps(r) == <<r.play, r.pipeline, r.fetching>>

\* The values held by the hooks; a change of any of them causes a render.
HookState(r) ==
  <<r.canplay, r.playing, r.pipeline, r.fetching, r.playTime, r.frozenSecs>>

\* Reconciliation of the intended state (play) with the observed one.
\* (Variant first: one that starts rendering without looking at canplay.)
PlayingEffectNoCanplay(r, w) ==
  IF r.play /\ ~r.playing
    THEN AddOp(w, Op("video.play", Null))
    ELSE IF ~r.play /\ r.playing
      THEN [AddOp(w, Op("video.pause", Null)) EXCEPT !.playing = FALSE]
      ELSE IF r.play /\ r.playing
        THEN AddOp(w, Op("onPlaying", Null))
        ELSE w
\* (Variant: one that pauses the element but forgets unsetPlaying().)
PlayingEffectPauseOnly(r, w) ==
  IF r.play /\ r.canplay /\ ~r.playing
    THEN AddOp(w, Op("video.play", Null))
    ELSE IF ~r.play /\ r.playing
      THEN AddOp(w, Op("video.pause", Null))
      ELSE IF r.play /\ r.playing
        THEN AddOp(w, Op("onPlaying", Null))
        ELSE w
\* (Variant: one that reports width and height the wrong way round.)
PlayingEffectSwapped(r, w) ==
  IF r.play /\ r.canplay /\ ~r.playing
    THEN AddOp(w, Op("video.play", Null))
    ELSE IF ~r.play /\ r.playing
      THEN [AddOp(w, Op("video.pause", Null)) EXCEPT !.playing = FALSE]
      ELSE IF r.play /\ r.playing
        THEN AddOp(w, OpOnPlaying(VideoHeight(w), VideoWidth(w)))
        ELSE w
PlayingEffect(r, w) ==
  IF r.play /\ r.canplay /\ ~r.playing
    THEN AddOp(w, Op("video.play", Null))
    ELSE IF ~r.play /\ r.playing
      THEN [AddOp(w, Op("video.pause", Null)) EXCEPT !.playing = FALSE]
      ELSE IF r.play /\ r.playing
        THEN AddOp(w, OpOnPlaying(VideoWidth(w), VideoHeight(w)))
        ELSE w

\* The cleanup returned by the interval effect: clearInterval(interval).
\* (Variant first: an effect that returns no cleanup.)
IntervalCleanupNone(r, w) == w
IntervalCleanup(r, w) == [w EXCEPT !.timers = @ \ {r.interval}]

\* The interval effect, which has no dependency array and so runs after every
\* render: setInterval(callback, 1000). Timers are numbered by the first
\* number no set timer has.
IntervalEffect(r, w) ==
  LET free == TimerIds \ w.timers IN
  IF free = {} THEN [w EXCEPT !.ok = FALSE]
  ELSE LET id == CHOOSE i \in free : \A j \in free : i <= j
       IN [w EXCEPT !.timers = @ \cup {id}, !.interval = id]

\* The cleanup returned by the ws/rtsp effect. It closes the pipeline that
\* effect constructed (the constant it captured), not the pipeline state.
\* (Variant first: one that forgets pipeline.close().)
SessionCleanupNoClose(r, w) ==
  IF r.cleanupPipe = Null THEN w
  ELSE LET
           a == w
           b == AddOp(a, Op("video.src=''", Null))
           c == [AddOp(b, Op("setPipeline(null)", Null)) EXCEPT !.pipeline = Null]
           d == [AddOp(c, Op("setFetching(false)", Null)) EXCEPT !.fetching = FALSE]
           e == [AddOp(d, Op("unsetCanplay", Null)) EXCEPT !.canplay = FALSE]
           f == [AddOp(e, Op("unsetPlaying", Null)) EXCEPT !.playing = FALSE]
       IN [f EXCEPT !.cleanupPipe = Null]
\* (Variant: one that forgets unsetPlaying().)
SessionCleanupKeepsPlaying(r, w) ==
  IF r.cleanupPipe = Null THEN w
  ELSE LET
           a == ClosePipeline(w, r.cleanupPipe)
           b == AddOp(a, Op("video.src=''", Null))
           c == [AddOp(b, Op("setPipeline(null)", Null)) EXCEPT !.pipeline = Null]
           d == [AddOp(c, Op("setFetching(false)", Null)) EXCEPT !.fetching = FALSE]
           e == [AddOp(d, Op("unsetCanplay", Null)) EXCEPT !.canplay = FALSE]
           f == e
       IN [f EXCEPT !.cleanupPipe = Null]
\* (Variant: one that clears the element's src before closing the pipeline.)
SessionCleanupSrcFirst(r, w) ==
  IF r.cleanupPipe = Null THEN w
  ELSE LET
           a == AddOp(w, Op("video.src=''", Null))
           b == ClosePipeline(a, r.cleanupPipe)
           c == [AddOp(b, Op("setPipeline(null)", Null)) EXCEPT !.pipeline = Null]
           d == [AddOp(c, Op("setFetching(false)", Null)) EXCEPT !.fetching = FALSE]
           e == [AddOp(d, Op("unsetCanplay", Null)) EXCEPT !.canplay = FALSE]
           f == [AddOp(e, Op("unsetPlaying", Null)) EXCEPT !.playing = FALSE]
       IN [f EXCEPT !.cleanupPipe = Null]
SessionCleanup(r, w) ==
  IF r.cleanupPipe = Null THEN w
  ELSE LET
           a == ClosePipeline(w, r.cleanupPipe)
           b == AddOp(a, Op("video.src=''", Null))
           c == [AddOp(b, Op("setPipeline(null)", Null)) EXCEPT !.pipeline = Null]
           d == [AddOp(c, Op("setFetching(false)", Null)) EXCEPT !.fetching = FALSE]
           e == [AddOp(d, Op("unsetCanplay", Null)) EXCEPT !.canplay = FALSE]
           f == [AddOp(e, Op("unsetPlaying", Null)) EXCEPT !.playing = FALSE]
       IN [f EXCEPT !.cleanupPipe = Null]

\* The ws/rtsp effect: constructs the session's pipeline.
SessionEffect(r, w) ==
  IF r.ws # "" /\ r.rtsp # ""
    THEN LET id == NextId(w) IN
         [NewPipeline(w, r.ws, r.rtsp) EXCEPT !.pipeline = id, !.cleanupPipe = id]
    ELSE w

\* The frozenSecs effect: restarts the feed once the counter reaches 3.
\* (Variant: one that forgets setFetching(false).)
RecoveryEffectKeepsFetching(r, w) ==
  IF r.frozenSecs < FrozenThreshold THEN w
  ELSE LET c == IF r.pipeline # Null THEN ClosePipeline(w, r.pipeline) ELSE w
           id == NextId(c)
       IN [NewPipeline(c, r.ws, r.rtsp)
             EXCEPT !.frozenSecs = 0, !.pipeline = id]
RecoveryEffect(r, w) ==
  IF r.frozenSecs < FrozenThreshold THEN w
  ELSE LET c == IF r.pipeline # Null THEN ClosePipeline(w, r.pipeline) ELSE w
           id == NextId(c)
       IN [NewPipeline(c, r.ws, r.rtsp)
             EXCEPT !.frozenSecs = 0, !.pipeline = id, !.fetching = FALSE]

\* The fetch-initiation effect: registers the ready continuation.
FetchEffect(r, w) ==
  IF r.play /\ r.pipeline # Null /\ ~r.fetching
    THEN [AddOp(w, Op("ready.then", r.pipeline))
            EXCEPT !.regs[r.pipeline] = @ + 1,
                   !.pending = @ \cup {r.pipeline},
                   !.fetching = TRUE]
    ELSE w

\* The effect pass after the render r, whose predecessor was the render prev:
\* the cleanups of the effects that run again, then the effects in the order
\* of their declaration. Effects read r; what they set is seen by the next
\* render.
Commit(prev, r, mount) ==
  LET runs(D(_)) == mount \/ D(prev) # D(r)
      c1(w) == IF ~mount THEN IntervalCleanup(r, w) ELSE w
      w1(w) == IF ~mount /\ SessionDeps(prev) # SessionDeps(r)
                 THEN SessionCleanup(r, w) ELSE w
      w2(w) == IF runs(PlayingDeps) THEN PlayingEffect(r, w) ELSE w
      e2(w) == IntervalEffect(r, w)
      w3(w) == IF runs(SessionDeps) THEN SessionEffect(r, w) ELSE w
      w4(w) == IF runs(RecoveryDeps) THEN RecoveryEffect(r, w) ELSE w
      w5(w) == IF runs(FetchDeps) THEN FetchEffect(r, w) ELSE w
  IN Let(Let(Let(Let(Let(Let(Let(r, c1), w1), w2), e2), w3), w4), w5)

\* Render and run effects until no hook state changes any more.
RECURSIVE Settle(_, _, _)
Settle(prev, r, mount) ==
  LET next(w) ==
        IF ~w.ok \/ HookState(w) = HookState(r) THEN w ELSE Settle(r, w, FALSE)
  IN Let(Commit(prev, r, mount), next)

\* The continuation registered on pipeline.ready: wires onSdp and asks the
\* pipeline to play, whatever has happened to the pipeline since.
ReadyContinuation(w, id) ==
  [AddOp(AddOp(w, OpOn("onSdp=", id, w.pstatus[id])),
         OpOn("rtsp.play", id, w.pstatus[id]))
     EXCEPT !.pending = @ \ {id}]

\* Run the continuations whose promise has resolved.
RECURSIVE FirePending(_)
FirePending(w) ==
  LET due == w.pending \cap w.ready
      fire(x) == FirePending(x)
  IN IF due = {} THEN w
     ELSE Let(ReadyContinuation(w, CHOOSE i \in due : \A j \in due : i <= j),
              fire)

\* What can no longer be observed is forgotten: the resolution of a promise
\* no continuation can be registered on again, and the registrations on a
\* closed pipeline no continuation waits for.
Collect(w) ==
  LET gone(i) == /\ w.pstatus[i] = "closed" /\ i \notin w.pending
                 /\ i # w.pipeline
  IN [w EXCEPT
        !.regs = [i \in PipelineIds |-> IF gone(i) THEN 0 ELSE w.regs[i]],
        !.ready = {i \in w.ready : i = w.pipeline}]

\* A task: the change it makes, then renders and effects until stable, then
\* the continuations that became due.
Task(r) == Let(Let(Let(r, LAMBDA x : Settle(Cur, x, FALSE)), FirePending), Collect)

Install(task) ==
  \E w \in {task} :
    /\ mounted
    /\ w.ok
    /\ play' = w.play /\ ws' = w.ws /\ rtsp' = w.rtsp
    /\ canplay' = w.canplay /\ playing' = w.playing
    /\ pipeline' = w.pipeline /\ fetching' = w.fetching
    /\ playTime' = w.playTime /\ frozenSecs' = w.frozenSecs
    /\ cleanupPipe' = w.cleanupPipe /\ pstatus' = w.pstatus
    /\ ready' = w.ready /\ pending' = w.pending /\ regs' = w.regs
    /\ timers' = w.timers /\ interval' = w.interval /\ mounted' = w.mounted
    /\ ops' = w.ops
  /\ UNCHANGED <<playerVars, elementVars>>

Start(name) == [Cur EXCEPT !.ops = <<Op(name, Null)>>]

\* ------------------------------------------------------------ state machine
\* The component as mounted with some props: first render and its effects.
Mounted(p, w, u) ==
  LET r0 == [play |-> p, ws |-> w, rtsp |-> u, canplay |-> FALSE,
             playing |-> FALSE, pipeline |-> Null, fetching |-> FALSE,
             playTime |-> 0, frozenSecs |-> 0, cleanupPipe |-> Null,
             pstatus |-> [i \in PipelineIds |-> "none"], ready |-> {},
             pending |-> {}, regs |-> [i \in PipelineIds |-> 0],
             timers |-> {}, interval |-> Null, mounted |-> TRUE,
             ops |-> <<Op("mount", Null)>>, ok |-> TRUE]
  IN Let(Let(Settle(r0, r0, TRUE), FirePending), Collect)

\* useState<VideoProperties>(): nothing reported so far.
NoVideoProperties == [width |-> 0, height |-> 0]

\* WsRtspVideo mounted with the given props.
InitVideo(p, w, u) ==
  \E m \in {Mounted(p, w, u)} :
  /\ play = m.play /\ ws = m.ws /\ rtsp = m.rtsp
  /\ canplay = m.canplay /\ playing = m.playing
  /\ pipeline = m.pipeline /\ fetching = m.fetching
  /\ playTime = m.playTime /\ frozenSecs = m.frozenSecs
  /\ cleanupPipe = m.cleanupPipe /\ pstatus = m.pstatus
  /\ ready = m.ready /\ pending = m.pending /\ regs = m.regs
  /\ timers = m.timers /\ interval = m.interval /\ mounted = m.mounted
  /\ ops = m.ops
  /\ currentTime = 0
  /\ consecFrozen = 0

\* Player mounted with the given props: the initial values of its useState.
InitPlayer(hn, ap) ==
  /\ hostname = hn /\ autoPlay = ap
  /\ playerPlay = (ap \/ FALSE)
  /\ refresh = 0
  /\ host = hn
  /\ waiting = ap
  /\ videoProperties = NoVideoProperties

\* No PlayerComponent: the value of componentState while none is mounted.
NoState == [hostname |-> "", autoplay |-> FALSE, resolution |-> ""]

\* The custom element as constructed, with the given attributes.
InitElement(a) ==
  /\ attributes = a
  /\ setStateCb = Null
  /\ instance = Null /\ mounts = 0
  /\ effectPending = FALSE
  /\ componentState = NoState

\* WsRtspVideo on its own, under a host that drives its props directly.
Init ==
  /\ \E p \in BOOLEAN, t \in Targets : InitVideo(p, t[1], t[2])
  /\ InitPlayer("", FALSE)
  /\ InitElement(NoState)

\* The host renders the component with new props.
HostRender(name, b, w, u) ==
  /\ Install(Task([Start(name) EXCEPT !.play = b, !.ws = w, !.rtsp = u]))
  /\ UNCHANGED <<currentTime, consecFrozen>>

\* The host changes the play prop.
SetPlay(b) ==
  /\ b # play
  /\ HostRender("setPlay", b, ws, rtsp)

\* The host changes the ws and/or rtsp prop.
SetTarget(w, u) ==
  /\ <<w, u>> # <<ws, rtsp>>
  /\ HostRender("setTarget", play, w, u)

\* The host renders the component again with props of equal value (new
\* strings with the same characters).
Rerender == HostRender("rerender", play, ws, rtsp)

\* The host changes play and the target in one and the same render.
SetPlayAndTarget(b, w, u) ==
  /\ b # play
  /\ <<w, u>> # <<ws, rtsp>>
  /\ HostRender("setProps", b, w, u)

\* A pipeline that feeds the video element: open, and asked to play.
Streaming(id) == pstatus[id] = "live" /\ regs[id] > 0 /\ id \notin pending

\* The video element reports 'canplay': it has buffered enough of the data
\* that a pipeline feeds it.
CanplayEvent ==
  /\ ~canplay
  /\ \E id \in PipelineIds : Streaming(id)
  /\ Install(Task([Start("canplay") EXCEPT !.canplay = TRUE]))
  /\ UNCHANGED <<currentTime, consecFrozen>>

\* The video element reports 'playing' (it does so only once it can play).
PlayingEvent ==
  /\ canplay /\ ~playing
  /\ Install(Task([Start("playing") EXCEPT !.playing = TRUE]))
  /\ UNCHANGED <<currentTime, consecFrozen>>

\* videoEl.play().catch(err => console.error(...)): the handler of a rejected
\* play request.
\* (Variant first: one that asks the element to play again.)
PlayCatchRetry(w) ==
  AddOp(AddOp(w, Op("console.error", Null)), Op("video.play", Null))
PlayCatch(w) == AddOp(w, Op("console.error", Null))

\* The promise of the play request made by the last task rejects (autoplay
\* refused, or the request aborted). The handler reads and writes no state,
\* so running it right after the request stands for running it at any time.
PlayRejected ==
  /\ \E i \in DOMAIN ops : ops[i].op = "video.play"
  /\ Install(Task(PlayCatch(Start("playRejected"))))
  /\ UNCHANGED <<currentTime, consecFrozen>>

\* The ready promise of a pipeline resolves: of the session's pipeline, or
\* of one a continuation still waits for (which may have been closed since).
PipelineReady(id) ==
  /\ (id = pipeline /\ id \notin ready) \/ id \in pending
  /\ Install(Task([Start("ready") EXCEPT !.ready = @ \cup {id}]))
  /\ UNCHANGED <<currentTime, consecFrozen>>

\* The media clock of the video element advances, which it does only while
\* the element is playing.
ClockAdvance ==
  /\ playing
  /\ currentTime < MaxClock
  /\ currentTime' = currentTime + 1
  /\ ops' = <<Op("clock", Null)>>
  /\ UNCHANGED <<play, ws, rtsp, canplay, playing, pipeline, fetching,
                 playTime, frozenSecs, cleanupPipe, pstatus, ready, pending,
                 regs, consecFrozen, timers, interval, mounted>>
  /\ UNCHANGED <<playerVars, elementVars>>

\* The callback of the 1 s interval, with the values of the last render.
IntervalCallback(r, curTime) ==
  IF ~r.playing THEN r
  ELSE LET a == IF curTime = r.playTime
                  THEN [r EXCEPT !.frozenSecs = r.frozenSecs + 1] ELSE r
       IN [a EXCEPT !.playTime = curTime]

\* The counter the stall detector is specified to keep: consecutive ticks
\* without progress while rendering, reset to zero by every other tick. A
\* count at the threshold triggers recovery, and counting starts again.
RefCount ==
  IF playing /\ currentTime = playTime
    THEN (IF consecFrozen >= FrozenThreshold THEN 0 ELSE consecFrozen) + 1
    ELSE 0

Tick ==
  /\ interval \in timers
  /\ Install(Task(IntervalCallback(Start("tick"), currentTime)))
  /\ consecFrozen' = RefCount
  /\ UNCHANGED currentTime

\* The host removes the component: the cleanups of all effects run, in the
\* order of the effects, and the component's state is discarded.
Unmounted(r) ==
  LET c == SessionCleanup(r, IntervalCleanup(r, r)) IN
  [c EXCEPT !.canplay = FALSE, !.playing = FALSE, !.pipeline = Null,
            !.fetching = FALSE, !.playTime = 0, !.frozenSecs = 0,
            !.cleanupPipe = Null, !.interval = Null, !.mounted = FALSE]

Unmount ==
  /\ Install(Let(Let(Let(Start("unmount"), Unmounted), FirePending), Collect))
  /\ UNCHANGED <<currentTime, consecFrozen>>

Next ==
  \/ \E b \in BOOLEAN : SetPlay(b)
  \/ \E t \in Targets : SetTarget(t[1], t[2])
  \/ \E b \in BOOLEAN, t \in Targets : SetPlayAndTarget(b, t[1], t[2])
  \/ Rerender
  \/ CanplayEvent
  \/ PlayingEvent
  \/ PlayRejected
  \/ \E id \in PipelineIds : PipelineReady(id)
  \/ ClockAdvance
  \/ Unmount
  \/ Tick

Spec == Init /\ [][Next]_vars

\* The same machine without the ticks that reach the threshold: no stall
\* recovery ever runs.
TickNoRecovery ==
  /\ Tick
  /\ \A i \in DOMAIN ops' : ops'[i].op # "construct"

NextNoRecovery ==
  \/ \E b \in BOOLEAN : SetPlay(b)
  \/ \E t \in Targets : SetTarget(t[1], t[2])
  \/ \E b \in BOOLEAN, t \in Targets : SetPlayAndTarget(b, t[1], t[2])
  \/ Rerender
  \/ CanplayEvent
  \/ PlayingEvent
  \/ PlayRejected
  \/ \E id \in PipelineIds : PipelineReady(id)
  \/ ClockAdvance
  \/ Unmount
  \/ TickNoRecovery

SpecNoRecovery == Init /\ [][NextNoRecovery]_vars

\* ------------------------------------------------------------------ Player
\* What the Player hands to PlaybackArea: <PlaybackArea play={autoPlay}
\* host={hostname} .../>.
PlaybackAreaPlay == autoPlay
PlaybackAreaHost == hostname

\* A task of the Player: the task's name, and WsRtspVideo left alone.
PlayerTask(name) ==
  /\ ops' = <<Op(name, Null)>>
  /\ UNCHANGED <<videoVars, elementVars>>

\* The play/pause button of the controls.
onPlayPause ==
  /\ IF playerPlay
       THEN /\ playerPlay' = FALSE
            /\ UNCHANGED <<waiting, host>>
       ELSE /\ waiting' = TRUE
            /\ host' = hostname
            /\ playerPlay' = TRUE
  /\ UNCHANGED <<hostname, autoPlay, refresh, videoProperties>>
  /\ PlayerTask("onPlayPause")

\* The refresh button.
onRefresh ==
  /\ refresh < MaxRefresh
  /\ playerPlay' = TRUE
  /\ refresh' = refresh + 1
  /\ waiting' = TRUE
  /\ UNCHANGED <<hostname, autoPlay, host, videoProperties>>
  /\ PlayerTask("onRefresh")

\* The stop button.
onStop ==
  /\ playerPlay' = FALSE
  /\ host' = ""
  /\ waiting' = FALSE
  /\ UNCHANGED <<hostname, autoPlay, refresh, videoProperties>>
  /\ PlayerTask("onStop")

\* The callback handed to PlaybackArea; WsRtspVideo calls it only with its
\* play prop true and a stream playing, hence a target.
onPlaying ==
  /\ PlaybackAreaPlay /\ PlaybackAreaHost # ""
  /\ videoProperties' = [width |-> StreamWidth, height |-> StreamHeight]
  /\ waiting' = FALSE
  /\ UNCHANGED <<hostname, autoPlay, playerPlay, refresh, host>>
  /\ PlayerTask("onPlaying")

\* The host renders the Player with new props; its state is kept.
SetPlayerProps(hn, ap) ==
  /\ <<hn, ap>> # <<hostname, autoPlay>>
  /\ hostname' = hn /\ autoPlay' = ap
  /\ UNCHANGED <<playerPlay, refresh, host, waiting, videoProperties>>
  /\ PlayerTask("setPlayerProps")

PlayerInit ==
  /\ InitVideo(FALSE, "", "")
  /\ InitElement(NoState)
  /\ \E hn \in Hostnames, ap \in BOOLEAN : InitPlayer(hn, ap)

PlayerNext ==
  \/ onPlayPause
  \/ onRefresh
  \/ onStop
  \/ onPlaying
  \/ \E hn \in Hostnames, ap \in BOOLEAN : SetPlayerProps(hn, ap)

PlayerSpec == PlayerInit /\ [][PlayerNext]_vars

\* ------------------------------------------------------- MediaStreamPlayer
\* A task of the custom element: the calls it makes, the rest left alone.
ElementTask(calls) ==
  /\ ops' = calls
  /\ UNCHANGED <<videoVars, playerVars>>

\* The getters: hostname (getAttribute ?? ''), autoplay (hasAttribute) and
\* resolution (getAttribute ?? '640x360') of the element with attributes a.
Getters(a) ==
  [hostname |-> a.hostname, autoplay |-> a.autoplay,
   resolution |-> IF a.resolution = "" THEN "640x360" ELSE a.resolution]

\* attributeChangedCallback(attrName, _, value), called with the attribute
\* already changed to a.
attributeChangedCallback(attrName, value, a) ==
  IF setStateCb = Null
    THEN /\ ElementTask(<<Op("attributeChanged", Null),
                          Op("console.warn", Null)>>)
         /\ UNCHANGED componentState
    ELSE LET g == Getters(a)
             forwarded ==
               IF attrName = "hostname" /\ value # g.hostname
                 THEN [g EXCEPT !.hostname = value] ELSE g
         IN /\ ElementTask(<<Op("attributeChanged", Null),
                             Op("_setState", setStateCb)>>)
            \* A setter of an unmounted component sets nothing.
            /\ componentState' =
                 IF setStateCb = instance THEN forwarded ELSE componentState

\* The page sets the hostname or the resolution attribute.
SetAttribute(attrName, value) ==
  /\ attributes' = [attributes EXCEPT ![attrName] = value]
  /\ attributeChangedCallback(attrName, value, attributes')
  /\ UNCHANGED <<setStateCb, instance, mounts, effectPending>>

\* The page sets or removes the autoplay attribute.
SetAutoplay(b) ==
  /\ b # attributes.autoplay
  /\ attributes' = [attributes EXCEPT !.autoplay = b]
  /\ attributeChangedCallback("autoplay", "", attributes')
  /\ UNCHANGED <<setStateCb, instance, mounts, effectPending>>

\* The element is inserted into the document: ReactDOM.render of a
\* PlayerComponent whose initial state is the attributes as they are now.
\* The render is synchronous, the component's effect runs later.
connectedCallback ==
  /\ instance = Null /\ mounts < MaxMounts
  /\ mounts' = mounts + 1
  /\ instance' = mounts + 1
  /\ componentState' = Getters(attributes)
  /\ effectPending' = TRUE
  /\ UNCHANGED <<attributes, setStateCb>>
  /\ ElementTask(<<Op("connected", Null)>>)

\* attributeChangeSubscriber(cb)
attributeChangeSubscriber(cb) ==
  /\ setStateCb' = cb
  /\ UNCHANGED componentState

\* PlayerComponent's effect: subscribeAttributesChanged(setState).
SubscribeEffect ==
  /\ effectPending
  /\ attributeChangeSubscriber(instance)
  /\ effectPending' = FALSE
  /\ UNCHANGED <<attributes, instance, mounts>>
  /\ ElementTask(<<Op("subscribe", Null)>>)

\* The element is removed from the document: unmountComponentAtNode, before
\* which React runs the effects that are still pending. _setState is kept.
disconnectedCallback ==
  /\ instance # Null
  /\ setStateCb' = IF effectPending THEN instance ELSE setStateCb
  /\ effectPending' = FALSE
  /\ instance' = Null
  /\ componentState' = NoState
  /\ UNCHANGED <<attributes, mounts>>
  /\ ElementTask(<<Op("disconnected", Null)>>)

ElementInit ==
  /\ InitVideo(FALSE, "", "")
  /\ InitPlayer("", FALSE)
  /\ \E h \in Hostnames \cup {""}, b \in BOOLEAN :
       InitElement([hostname |-> h, autoplay |-> b, resolution |-> ""])

ElementNext ==
  \/ \E h \in Hostnames : SetAttribute("hostname", h)
  \/ \E x \in Resolutions : SetAttribute("resolution", x)
  \/ \E b \in BOOLEAN : SetAutoplay(b)
  \/ connectedCallback
  \/ SubscribeEffect
  \/ disconnectedCallback

ElementSpec == ElementInit /\ [][ElementNext]_vars

\* ------------------------------------------------------------ vocabulary
LivePipelines == {i \in PipelineIds : pstatus[i] = "live"}
TaskName == ops[1].op
CountIn(o, name) == Cardinality({i \in DOMAIN o : o[i].op = name})
HasOp(name) == CountIn(ops, name) > 0
Triple == <<play, canplay, playing>>
EmptyTarget == ws = "" \/ rtsp = ""
\* In the calls o, pipeline p is closed, and before any pipeline is constructed.
ClosedBeforeConstruct(o, p) ==
  \E i \in DOMAIN o :
    /\ o[i].op = "close" /\ o[i].id = p
    /\ \A j \in DOMAIN o : o[j].op = "construct" => i < j

\* ------------------------------------------------------------ claims

\* C1: in every reachable state the number of pipelines constructed and not
\* yet closed is 0 or 1.
C1_LivePipelinesZeroOrOne == Cardinality(LivePipelines) \in {0, 1}

\* C2: as long as no stall recovery runs, at most one live pipeline exists
\* after every task, whatever the play and target changes, surface events and
\* ready notifications were.
C2_AtMostOneLiveSession == \A i, j \in LivePipelines : i = j
C2_Witness ==
  /\ TaskName = "setTarget" /\ HasOp("close") /\ HasOp("construct")
  /\ Cardinality(LivePipelines) = 1

\* C3: a target change made while a session is active closes the pipeline
\* that is the pipeline state at that moment, and does so before it
\* constructs the replacement.
C3_TargetChangeClosesActivePipeline ==
  [][(<<ws', rtsp'>> # <<ws, rtsp>> /\ pipeline # Null)
       => ClosedBeforeConstruct(ops', pipeline)]_vars

\* C4: after the target is replaced by an empty one no live pipeline remains,
\* canplay and playing are false and no pipeline was constructed.
C4_EmptyTargetLeavesNothing ==
  (TaskName \in {"setTarget", "setProps"} /\ EmptyTarget)
    => /\ LivePipelines = {}
       /\ ~canplay /\ ~playing
       /\ ~HasOp("construct")

\* C5: a ready continuation wires onSdp and asks for play only on a pipeline
\* that is still the session's pipeline and has not been closed.
C5_ContinuationOnlyOnActivePipeline ==
  \A i \in DOMAIN ops :
    ops[i].op \in {"onSdp=", "rtsp.play"}
      => ops[i].st = "live" /\ ops[i].id = pipeline

\* C6: no pipeline ever has more than one ready continuation registered on
\* it, however play is toggled, and the session's pipeline has exactly one as
\* soon as play has been true while it was the session's pipeline.
C6_FetchInitiatedOncePerSession ==
  /\ \A i \in PipelineIds : regs[i] <= 1
  /\ (pipeline # Null /\ play) => regs[pipeline] = 1

C8_ReconciliationIdempotent ==
  [][/\ (Triple' = <<TRUE, TRUE, FALSE>> /\ Triple # Triple')
          => /\ CountIn(ops', "video.play") = 1
             /\ CountIn(ops', "video.pause") = 0
             /\ CountIn(ops', "onPlaying") = 0
     /\ (Triple' = Triple /\ TaskName' # "playing")
          => /\ CountIn(ops', "video.play") = 0
             /\ CountIn(ops', "video.pause") = 0
             /\ CountIn(ops', "onPlaying") = 0]_vars
C8_Witness ==
  /\ TaskName = "setPlay" /\ Triple = <<TRUE, TRUE, FALSE>>
  /\ HasOp("ready.then") /\ CountIn(ops, "video.play") = 1

\* C9: a tick on which playing is true and the clock equals the value of the
\* previous tick adds one to frozenSecs (which recovery then resets at the
\* threshold); every other tick resets frozenSecs to zero.
C9_TickCountsOrResets ==
  [][TaskName' = "tick"
       => IF playing /\ currentTime = playTime
            THEN \/ frozenSecs' = frozenSecs + 1
                 \/ frozenSecs + 1 >= FrozenThreshold /\ frozenSecs' = 0
            ELSE frozenSecs' = 0]_vars

\* C10: a tick triggers recovery exactly when it is the third consecutive
\* tick without progress while playing; recovery closes the session's
\* pipeline once, constructs one pipeline for the same ws and rtsp, and
\* leaves frozenSecs at 0.
C10_RecoveryOnThirdConsecutiveFrozenTick ==
  TaskName = "tick"
    => /\ HasOp("construct") <=> consecFrozen = FrozenThreshold
       /\ HasOp("construct")
            => /\ CountIn(ops, "close") = 1
               /\ CountIn(ops, "construct") = 1
               /\ \A i \in DOMAIN ops :
                    ops[i].op = "construct"
                      => ops[i].ws = ws /\ ops[i].rtsp = rtsp /\ ops[i].id = pipeline
               /\ frozenSecs = 0

\* C11: frozenSecs is greater than zero only while playing is true.
C11_FrozenOnlyWhileRendering == ~playing => frozenSecs = 0

\* C12: playing implies canplay in every reachable state, the video element
\* reporting 'playing' only after 'canplay': pause, teardown and recovery
\* never clear canplay and leave playing set.
C12_RenderingImpliesCanRender == playing => canplay
C12_Witness ==
  /\ TaskName = "tick" /\ HasOp("construct")
  /\ playing /\ canplay

\* C13: when play goes from true to false while playing is true (the target
\* staying as it is), the element is paused exactly once, playing becomes
\* false, no pipeline is closed or constructed, and pipeline and fetching are
\* as before.
C13_PauseKeepsSession ==
  [][(play /\ ~play' /\ playing /\ <<ws', rtsp'>> = <<ws, rtsp>>)
       => /\ CountIn(ops', "video.pause") = 1
          /\ ~playing'
          /\ CountIn(ops', "close") = 0 /\ CountIn(ops', "construct") = 0
          /\ pstatus' = pstatus
          /\ pipeline' = pipeline /\ fetching' = fetching]_vars
C13_Witness ==
  /\ TaskName = "setPlay" /\ ~play /\ HasOp("video.pause")
  /\ ~playing /\ pipeline # Null /\ fetching

\* C14: onPlaying is called only by a task that ends with play and playing
\* both true, with the element's videoWidth and videoHeight; it is called
\* exactly once by the task in which play and playing become both true, and
\* not by a task over which they stay both true.
C14_OnPlayingOncePerTransition ==
  [][/\ CountIn(ops', "onPlaying") > 0 => play' /\ playing'
     /\ \A i \in DOMAIN ops' : ops'[i].op = "onPlaying"
          => /\ ops'[i].width = VideoWidth([canplay |-> canplay'])
             /\ ops'[i].height = VideoHeight([canplay |-> canplay'])
     /\ (play' /\ playing' /\ ~(play /\ playing))
          => CountIn(ops', "onPlaying") = 1
     /\ (play' /\ playing' /\ play /\ playing)
          => CountIn(ops', "onPlaying") = 0]_vars
C14_Witness ==
  /\ TaskName = "playing" /\ play /\ playing
  /\ \E i \in DOMAIN ops :
       /\ ops[i].op = "onPlaying"
       /\ ops[i].width = StreamWidth /\ ops[i].height = StreamHeight

\* The calls of the ws/rtsp cleanup, in the order the code makes them.
TeardownOrder ==
  <<"close", "video.src=''", "setPipeline(null)", "setFetching(false)",
    "unsetCanplay", "unsetPlaying">>

\* C17: a teardown closes the session's pipeline, then clears the element's
\* src, then clears pipeline, fetching, canplay and playing, in this order;
\* when the pipeline was already closed (by stall recovery) the close is
\* harmless and the task ends in the same state: that pipeline closed, canplay
\* and playing false, and after a change of the target alone to an empty one
\* no pipeline and no fetching.
C17_TeardownOrder ==
  HasOp("video.src=''") =>
    /\ CountIn(ops, "video.src=''") = 1
    /\ \E i \in DOMAIN ops :
         /\ \A k \in DOMAIN TeardownOrder :
              /\ i + k - 1 \in DOMAIN ops
              /\ ops[i + k - 1].op = TeardownOrder[k]
         /\ ops[i].st \in {"live", "closed"}
         /\ pstatus[ops[i].id] = "closed"
    /\ ~canplay /\ ~playing
    /\ (TaskName = "setTarget" /\ EmptyTarget) => pipeline = Null /\ ~fetching
C17_Witness ==
  /\ TaskName = "setTarget" /\ HasOp("video.src=''") /\ EmptyTarget
  /\ \E i \in DOMAIN ops : ops[i].op = "close" /\ ops[i].st = "closed"
  /\ ~canplay /\ ~playing /\ pipeline = Null

\* C18: a tick that runs the recovery closes the current pipeline and no
\* other, makes a new live pipeline the current one with fetching reset,
\* and leaves canplay, playing and the element's src as they are; with play
\* true the fetch effect then registers one continuation on the new pipeline,
\* and the task in which that pipeline reports ready asks it to play exactly
\* once.
C18_RecoveryReplacesPipelineOnly ==
  [][/\ (TaskName' = "tick" /\ CountIn(ops', "construct") > 0)
          => /\ \A i \in DOMAIN ops' :
                  ops'[i].op = "close" => ops'[i].id = pipeline
             /\ pipeline # Null => CountIn(ops', "close") = 1
             /\ \A j \in PipelineIds \ {pipeline, pipeline'} :
                  pstatus'[j] = pstatus[j]
             /\ pipeline' \notin {Null, pipeline}
             /\ pstatus'[pipeline'] = "live"
             /\ canplay' = canplay /\ playing' = playing
             /\ CountIn(ops', "video.src=''") = 0
             /\ fetching' = play'
             /\ regs'[pipeline'] = IF play' THEN 1 ELSE 0
             /\ play' => pipeline' \in pending'
     /\ (pipeline' # Null /\ pipeline' # cleanupPipe') => regs'[pipeline'] <= 1
     /\ (TaskName' = "ready" /\ pipeline # cleanupPipe /\ pipeline \in pending
           /\ pipeline \in ready')
          => Cardinality({i \in DOMAIN ops' :
               ops'[i].op = "rtsp.play" /\ ops'[i].id = pipeline}) = 1]_vars
C18_Witness ==
  /\ TaskName = "ready" /\ pipeline \notin {Null, cleanupPipe} /\ play
  /\ \E i \in DOMAIN ops :
       ops[i].op = "rtsp.play" /\ ops[i].id = pipeline /\ ops[i].st = "live"
  /\ canplay /\ playing /\ fetching

\* C19: a rejected play request is only logged: the task that handles the
\* rejection makes one console.error call and nothing else, play stays true,
\* and canplay, playing, pipeline and fetching are as before; and no task that
\* leaves play, canplay and playing as they are asks the element to play.
C19_RejectedPlayOnlyLogged ==
  [][/\ TaskName' = "playRejected"
          => /\ ops' = <<Op("playRejected", Null), Op("console.error", Null)>>
             /\ play /\ play'
             /\ canplay' = canplay /\ playing' = playing
             /\ pipeline' = pipeline /\ fetching' = fetching
             /\ pstatus' = pstatus
     /\ Triple' = Triple => CountIn(ops', "video.play") = 0]_vars
C19_Witness ==
  /\ TaskName = "playRejected" /\ HasOp("console.error")
  /\ play /\ canplay /\ ~playing

\* C20: a render with ws and rtsp equal in value to the current ones closes
\* and constructs nothing and leaves canplay, playing, pipeline and fetching
\* as they are; and a change of the target alone that constructs a pipeline
\* asks neither that pipeline nor the element to play.
C20_TargetComparedByValue ==
  [][/\ TaskName' = "rerender"
          => /\ ops' = <<Op("rerender", Null)>>
             /\ pstatus' = pstatus
             /\ canplay' = canplay /\ playing' = playing
             /\ pipeline' = pipeline /\ fetching' = fetching
     /\ (TaskName' = "setTarget" /\ CountIn(ops', "construct") > 0)
          => /\ CountIn(ops', "video.play") = 0
             /\ \A i \in DOMAIN ops' :
                  ops'[i].op = "rtsp.play" => ops'[i].id # pipeline']_vars
C20_Witness ==
  /\ TaskName = "rerender" /\ ~EmptyTarget
  /\ pipeline # Null /\ pstatus[pipeline] = "live" /\ canplay /\ playing

\* C15: the commands of the controls reach PlaybackArea: after a pause
\* (onPlayPause with play true) the play handed to it is false, after a play
\* (onPlayPause with play false) it is true, and after a stop the host handed
\* to it is empty.
C15_CommandsReachPlaybackArea ==
  [][/\ (TaskName' = "onPlayPause" /\ playerPlay) => ~PlaybackAreaPlay'
     /\ (TaskName' = "onPlayPause" /\ ~playerPlay) => PlaybackAreaPlay'
     /\ TaskName' = "onStop" => PlaybackAreaHost' = ""]_vars

\* C16: waiting is true only while play is wanted and playing has not been
\* reported: it is false whenever the Player's play is false, and false after
\* onPlaying.
C16_WaitingOnlyWhilePlayWanted ==
  /\ ~playerPlay => ~waiting
  /\ TaskName = "onPlaying" => ~waiting

\* C21: a task that changes the target leaves frozenSecs at zero, so that the
\* frozen ticks of one session are not counted against the next.
C21_TargetChangeResetsCounter ==
  [][<<ws', rtsp'>> # <<ws, rtsp>> => frozenSecs' = 0]_vars

\* C22: every tick records the element's current time as playTime, also a
\* tick that finds playing false.
C22_TickRecordsClock ==
  [][TaskName' = "tick" => playTime' = currentTime]_vars

\* C23: a tick that finds no session (pipeline is null) makes no call and
\* changes no state of the component; and no recovery constructs a pipeline
\* while ws or rtsp is empty.
C23_TickWithoutSessionIsNoOp ==
  [][/\ (TaskName' = "tick" /\ pipeline = Null)
          => /\ ops' = <<Op("tick", Null)>>
             /\ HookState(Cur)' = HookState(Cur)
             /\ pstatus' = pstatus
     /\ (TaskName' = "tick" /\ CountIn(ops', "construct") > 0)
          => ~EmptyTarget]_vars

\* C24: at most one interval timer is set at any time, the one of the last
\* render while the component is mounted, and none once it is unmounted.
C24_AtMostOneIntervalTimer ==
  /\ Cardinality(timers) <= 1
  /\ mounted => timers = {interval}
  /\ ~mounted => timers = {}
C24_Witness ==
  /\ TaskName = "unmount" /\ ~mounted /\ timers = {}
  /\ HasOp("close")

====
